---- MODULE Spec2Model ----
(***************************************************************************)
(* Model of SEGUNDOPARCIALHUALPA.py: a roster of players persisted as one  *)
(* players.csv per team under nba/<conferencia>/<equipo>/.                 *)
(*                                                                         *)
(* Text is a sequence of one-character strings, so that strip(), lower(),  *)
(* float() and str() are computed and not assumed.  A float is modelled by *)
(* its value in tenths (10.0 is 100, 7.5 is 75).  A path is the sequence   *)
(* of its segments below BASE_DIR (<<>> is BASE_DIR itself).               *)
(***************************************************************************)
EXTENDS Integers, Sequences, FiniteSets, TLC

\* ------------------------------------------------------------------------
\* Bounds
\* ------------------------------------------------------------------------
\* Number of identifiers uuid4() hands out in one run (successful altas).
MaxIds == 2

\* Number of external tamperings with the files in one run.
MaxManipulaciones == 1

\* ------------------------------------------------------------------------
\* Configuration
\* ------------------------------------------------------------------------
CSV_FILENAME == "players.csv"

CSV_HEADERS == <<"id", "nombre", "posicion", "puntos", "rebotes", "asistencias">>

Campos == {CSV_HEADERS[i] : i \in DOMAIN CSV_HEADERS}

Stats == <<"puntos", "rebotes", "asistencias">>

\* ------------------------------------------------------------------------
\* Python values: str, int, float (in tenths) and None
\* ------------------------------------------------------------------------
StrV(s) == [t |-> "str", s |-> s, n |-> 0]

IntV(n) == [t |-> "int", s |-> <<>>, n |-> n]

FloatV(n) == [t |-> "float", s |-> <<>>, n |-> n]

Digitos == <<"0", "1", "2", "3", "4", "5", "6", "7", "8", "9">>

EsDigito(c) == \E i \in DOMAIN Digitos : Digitos[i] = c

ValorDigito(c) == (CHOOSE i \in DOMAIN Digitos : Digitos[i] = c) - 1

EsEspacio(c) == c \in {" ", "\t", "\n"}

RECURSIVE LStrip(_)
LStrip(s) ==
  IF s # <<>> /\ EsEspacio(Head(s)) THEN LStrip(Tail(s)) ELSE s

RECURSIVE RStrip(_)
RStrip(s) ==
  IF s # <<>> /\ EsEspacio(s[Len(s)]) THEN RStrip(SubSeq(s, 1, Len(s) - 1)) ELSE s

\* str.strip()
Strip(s) == RStrip(LStrip(s))

Mayusculas == <<"A", "B", "C", "D", "E", "F", "G", "H", "I", "J", "K", "L", "M",
                "N", "O", "P", "Q", "R", "S", "T", "U", "V", "W", "X", "Y", "Z">>

Minusculas == <<"a", "b", "c", "d", "e", "f", "g", "h", "i", "j", "k", "l", "m",
                "n", "o", "p", "q", "r", "s", "t", "u", "v", "w", "x", "y", "z">>

LowerChar(c) ==
  IF \E i \in DOMAIN Mayusculas : Mayusculas[i] = c
    THEN Minusculas[CHOOSE i \in DOMAIN Mayusculas : Mayusculas[i] = c]
    ELSE c

\* str.lower()
Lower(s) == [i \in DOMAIN s |-> LowerChar(s[i])]

RECURSIVE NatText(_)
NatText(n) ==
  IF n < 10 THEN <<Digitos[n + 1]>> ELSE NatText(n \div 10) \o <<Digitos[(n % 10) + 1]>>

\* str(int)
IntText(n) == IF n < 0 THEN <<"-">> \o NatText(-n) ELSE NatText(n)

\* str(float), the float given in tenths: 100 is "10.0", -5 is "-0.5"
FloatText(n) ==
  IF n < 0
    THEN <<"-">> \o NatText((-n) \div 10) \o <<".">> \o NatText((-n) % 10)
    ELSE NatText(n \div 10) \o <<".">> \o NatText(n % 10)

RECURSIVE ValorNat(_)
ValorNat(s) ==
  IF s = <<>> THEN 0 ELSE 10 * ValorNat(SubSeq(s, 1, Len(s) - 1)) + ValorDigito(s[Len(s)])

TodoDigitos(s) == \A i \in DOMAIN s : EsDigito(s[i])

\* Unsigned decimal literal with at most one fractional digit, in tenths;
\* ok is FALSE where float() raises ValueError.
ParseSinSigno(s) ==
  LET p == {i \in DOMAIN s : s[i] = "."} IN
  IF p = {}
    THEN [ok |-> s # <<>> /\ TodoDigitos(s),
          n |-> IF s # <<>> /\ TodoDigitos(s) THEN 10 * ValorNat(s) ELSE 0]
    ELSE LET i == CHOOSE x \in p : TRUE
             ent == SubSeq(s, 1, i - 1)
             dec == SubSeq(s, i + 1, Len(s))
             bien == /\ Cardinality(p) = 1
                     /\ TodoDigitos(ent) /\ TodoDigitos(dec)
                     /\ Len(ent) + Len(dec) > 0
                     /\ Len(dec) <= 1
         IN [ok |-> bien,
             n |-> IF bien THEN 10 * ValorNat(ent) + ValorNat(dec) ELSE 0]

\* float(str): surrounding whitespace and one sign are accepted
ParseFloat(s) ==
  LET u == Strip(s) IN
  IF u # <<>> /\ Head(u) = "-"
    THEN LET r == ParseSinSigno(Tail(u)) IN [ok |-> r.ok, n |-> 0 - r.n]
    ELSE IF u # <<>> /\ Head(u) = "+" THEN ParseSinSigno(Tail(u))
    ELSE ParseSinSigno(u)

\* float(valor): ok is FALSE where it raises TypeError or ValueError
Float(v) ==
  CASE v.t = "str" -> ParseFloat(v.s)
    [] v.t = "int" -> [ok |-> TRUE, n |-> 10 * v.n]
    [] v.t = "float" -> [ok |-> TRUE, n |-> v.n]
    [] OTHER -> [ok |-> FALSE, n |-> 0]

\* str(valor), which is also the text csv.DictWriter writes for a cell
Str(v) ==
  CASE v.t = "str" -> v.s
    [] v.t = "int" -> IntText(v.n)
    [] v.t = "float" -> FloatText(v.n)
    [] OTHER -> <<>>

\* dict.get(clave, defecto)
Get(d, clave, defecto) == IF clave \in DOMAIN d THEN d[clave] ELSE defecto

\* ------------------------------------------------------------------------
\* Validaciones
\* ------------------------------------------------------------------------
validar_nombre(nombre) == nombre.t = "str" /\ Strip(nombre.s) # <<>>

posiciones_validas ==
  { <<"b", "a", "s", "e">>,
    <<"e", "s", "c", "o", "l", "t", "a">>,
    <<"a", "l", "e", "r", "o">>,
    <<"a", "l", "a", "-", "p", "i", "v", "o", "t">>,
    <<"p", "i", "v", "o", "t">> }

\* defined for a str only: posicion.lower() raises AttributeError otherwise
validar_posicion(posicion) == Lower(posicion.s) \in posiciones_validas

validar_estadistica(valor) == Float(valor).ok /\ Float(valor).n >= 0

\* ------------------------------------------------------------------------
\* State
\* ------------------------------------------------------------------------
VARIABLES
  dirs,      \* the directories that exist at or below BASE_DIR (paths)
  files,     \* path of each existing players.csv |-> its rows below the header
  listado,   \* the order in which os.listdir yields names during this run
  nextId,    \* number of the next identifier uuid4() returns
  creadoEn,  \* identifier of each stored player |-> the file alta put it in
  borrados,  \* identifiers for which eliminar_jugador has returned True
  externos,  \* number of external tamperings with the files so far
  last       \* the last call: operation, arguments, result

vars == <<dirs, files, listado, nextId, creadoEn, borrados, externos, last>>

\* os.path.join(ruta, *partes)
Join(ruta, partes) == ruta \o partes

\* BASE_DIR, the root of the hierarchy
BASE_DIR == <<>>

\* The text of the k-th identifier uuid4() returns; uuid4 draws 122 random
\* bits, modelled as a value never returned before.
IdText(k) == <<"u">> \o NatText(k)

\* ------------------------------------------------------------------------
\* Utilidades
\* ------------------------------------------------------------------------
\* os.makedirs(ruta, exist_ok=True): the directory and all its parents
asegurar_directorio(ds, partes) ==
  ds \cup {SubSeq(Join(BASE_DIR, partes), 1, k) : k \in 0..Len(Join(BASE_DIR, partes))}

\* Creates the header-only file unless the file exists
inicializar_csv_si_necesario(fs, ruta_dir) ==
  LET ruta_csv == Join(ruta_dir, <<CSV_FILENAME>>) IN
  IF ruta_csv \in DOMAIN fs
    THEN fs
    ELSE [p \in DOMAIN fs \cup {ruta_csv} |-> IF p = ruta_csv THEN <<>> ELSE fs[p]]

\* csv.DictReader: every cell comes back as a str; a missing file is []
leer_csv(fs, ruta_csv) ==
  IF ruta_csv \in DOMAIN fs
    THEN [i \in DOMAIN fs[ruta_csv] |->
            [k \in DOMAIN fs[ruta_csv][i] |-> StrV(fs[ruta_csv][i][k])]]
    ELSE <<>>

EscribirCsvEnTodos(fs, ruta_csv, filas) ==
  [p \in DOMAIN fs \cup {ruta_csv} |->
     [i \in DOMAIN filas |-> [k \in Campos |-> Str(filas[i][k])]]]

\* csv.DictWriter: truncates the file, writes the header and one row per
\* dict, each cell as the text of its value
escribir_csv(fs, ruta_csv, filas) ==
  [p \in DOMAIN fs \cup {ruta_csv} |->
     IF p = ruta_csv
       THEN [i \in DOMAIN filas |-> [k \in Campos |-> Str(filas[i][k])]]
       ELSE fs[p]]

\* ------------------------------------------------------------------------
\* Lectura recursiva
\* ------------------------------------------------------------------------
\* os.listdir(base): the names directly under base, in the run's order
Listdir(ds, fs, ord, base) ==
  SelectSeq(ord, LAMBDA n : Join(base, <<n>>) \in ds \cup DOMAIN fs)

\* f["_origen"] = ruta, for every row of one file
Etiquetar(filas, ruta) ==
  [i \in DOMAIN filas |->
     [k \in DOMAIN filas[i] \cup {"_origen"} |->
        IF k = "_origen" THEN StrV(ruta) ELSE filas[i][k]]]

\* The walk without the descent into subdirectories
LeerSoloEnBase(ds, fs, ord, base) ==
  IF base \notin ds THEN <<>>
  ELSE Etiquetar(leer_csv(fs, Join(base, <<CSV_FILENAME>>)), Join(base, <<CSV_FILENAME>>))

RECURSIVE leer_todos_los_jugadores(_, _, _, _)
RECURSIVE Recorrer(_, _, _, _, _)
\* The loop over os.listdir(base_dir): a directory is walked recursively, a
\* file named players.csv is read and its rows tagged, anything else skipped
Recorrer(ds, fs, ord, base, elementos) ==
  IF elementos = <<>> THEN <<>>
  ELSE LET ruta == Join(base, <<Head(elementos)>>)
           parte == IF ruta \in ds
                      THEN leer_todos_los_jugadores(ds, fs, ord, ruta)
                      ELSE IF Head(elementos) = CSV_FILENAME
                        THEN Etiquetar(leer_csv(fs, ruta), ruta)
                        ELSE <<>>
       IN parte \o Recorrer(ds, fs, ord, base, Tail(elementos))

leer_todos_los_jugadores(ds, fs, ord, base) ==
  IF base \notin ds THEN <<>>
  ELSE Recorrer(ds, fs, ord, base, Listdir(ds, fs, ord, base))

\* ------------------------------------------------------------------------
\* CRUD
\* ------------------------------------------------------------------------
\* The checks at the head of alta_jugador, in order; "ok" when all pass
ValidarAlta(jugador) ==
  IF ~validar_nombre(Get(jugador, "nombre", StrV(<<>>))) THEN "ValueError"
  ELSE IF Get(jugador, "posicion", StrV(<<>>)).t # "str" THEN "AttributeError"
  ELSE IF ~validar_posicion(Get(jugador, "posicion", StrV(<<>>))) THEN "ValueError"
  ELSE IF \E i \in DOMAIN Stats : ~validar_estadistica(Get(jugador, Stats[i], IntV(0)))
    THEN "ValueError"
  ELSE "ok"

\* The dict alta_jugador builds and returns, for a jugador with all keys
Nuevo(id, jugador) ==
  [k \in Campos |->
     CASE k = "id" -> StrV(id)
       [] k = "nombre" -> StrV(Strip(jugador["nombre"].s))
       [] k = "posicion" -> StrV(Lower(jugador["posicion"].s))
       [] OTHER -> FloatV(Float(jugador[k]).n)]

AgregarAlInicio(jugadores, fila) == <<fila>> \o jugadores

\* jugadores.append(fila)
AgregarFila(jugadores, fila) == Append(jugadores, fila)

BuscarUltimo(todos, id) ==
  LET m == {i \in DOMAIN todos : todos[i]["id"] = StrV(id)} IN
  IF m = {} THEN 0 ELSE CHOOSE i \in m : \A j \in m : j <= i

BuscarOPrimero(todos, id) ==
  LET m == {i \in DOMAIN todos : todos[i]["id"] = StrV(id)} IN
  IF m = {} THEN (IF todos = <<>> THEN 0 ELSE 1) ELSE CHOOSE i \in m : \A j \in m : i <= j

\* for j in todos: if j["id"] == jugador_id: the index of the first row
\* with the identifier, 0 when the loop ends without one
Buscar(todos, id) ==
  LET m == {i \in DOMAIN todos : todos[i]["id"] = StrV(id)} IN
  IF m = {} THEN 0 ELSE CHOOSE i \in m : \A j \in m : i <= j

ActualizarFilaTodo(fila, cambios) ==
  [k \in DOMAIN fila |-> Get(cambios, k, fila[k])]

ActualizarFilaSinResto(fila, cambios) ==
  [k \in DOMAIN fila |->
     IF k \in {"nombre", "posicion", "puntos", "rebotes", "asistencias"}
       THEN Get(cambios, k, StrV(<<>>))
       ELSE fila[k]]

\* fila.update({...}): the five fields, each from cambios when present
ActualizarFila(fila, cambios) ==
  [k \in DOMAIN fila |->
     IF k \in {"nombre", "posicion", "puntos", "rebotes", "asistencias"}
       THEN Get(cambios, k, fila[k])
       ELSE fila[k]]

FiltrarNada(jugadores, id) == jugadores

\* [f for f in jugadores if f["id"] != jugador_id]
FiltrarId(jugadores, id) ==
  SelectSeq(jugadores, LAMBDA f : f["id"] # StrV(id))

\* ------------------------------------------------------------------------
\* Inputs
\* ------------------------------------------------------------------------
\* (conferencia, equipo) pairs the callers name
Destinos == {<<"este", "bulls">>, <<"oeste", "lakers">>}

\* Orders in which os.listdir may yield the names of this hierarchy
Ordenes ==
  { <<"este", "oeste", "bulls", "lakers", "players.csv">>,
    <<"players.csv", "lakers", "bulls", "oeste", "este">> }

JAna ==
  [nombre |-> StrV(<<" ", "A", "n", "a", " ">>), posicion |-> StrV(<<"B", "A", "S", "E">>),
   puntos |-> StrV(<<"1", "0">>), rebotes |-> IntV(5), asistencias |-> StrV(<<"7", ".", "5">>)]

\* The jugador mappings passed to alta_jugador: a valid one, then a
\* whitespace name, no name, an unknown position, a position that is not a
\* str, a negative statistic, a non-numeric statistic, no "puntos" key
Jugadores ==
  { JAna,
    [JAna EXCEPT !["nombre"] = StrV(<<" ", " ">>)],
    [k \in {"posicion", "puntos", "rebotes", "asistencias"} |-> JAna[k]],
    [JAna EXCEPT !["posicion"] = StrV(<<"a", "r", "c", "o">>)],
    [JAna EXCEPT !["posicion"] = IntV(5)],
    [JAna EXCEPT !["puntos"] = IntV(-1)],
    [JAna EXCEPT !["puntos"] = StrV(<<"a", "b", "c">>)],
    [k \in {"nombre", "posicion", "rebotes", "asistencias"} |-> JAna[k]] }

\* The cambios mappings passed to actualizar_jugador
Cambios ==
  { [nombre |-> StrV(<<"E", "v", "a">>), puntos |-> IntV(25)],
    [puntos |-> StrV(<<"-", "5">>)],
    [id |-> StrV(<<"z">>), equipo |-> StrV(<<"x">>)] }

\* The identifiers passed to actualizar_jugador and eliminar_jugador
Ids == {IdText(k) : k \in 1..MaxIds}

\* ------------------------------------------------------------------------
\* Operations
\* ------------------------------------------------------------------------
Llamada(op, ruta, id, cambios, err, ok, ret) ==
  [op |-> op, ruta |-> ruta, id |-> id, cambios |-> cambios,
   err |-> err, ok |-> ok, ret |-> ret]

Init ==
  /\ dirs = {}
  /\ files = <<>>
  /\ listado \in Ordenes
  /\ nextId = 1
  /\ creadoEn = <<>>
  /\ borrados = {}
  /\ externos = 0
  /\ last = Llamada("init", <<>>, <<>>, <<>>, "ok", FALSE, <<>>)

alta_jugador(conferencia, equipo, jugador) ==
  LET dir_path == Join(BASE_DIR, <<conferencia, equipo>>)
      ruta_csv == Join(dir_path, <<CSV_FILENAME>>)
      ds2 == asegurar_directorio(dirs, <<conferencia, equipo>>)
      fs2 == inicializar_csv_si_necesario(files, dir_path)
      id == IdText(nextId)
      nuevo == Nuevo(id, jugador)
      jugadores == leer_csv(fs2, ruta_csv)
      fila == [k \in DOMAIN nuevo |-> StrV(Str(nuevo[k]))]
  IN
  IF ValidarAlta(jugador) # "ok"
    THEN /\ last' = Llamada("alta", ruta_csv, <<>>, <<>>, ValidarAlta(jugador), FALSE, <<>>)
         /\ UNCHANGED <<dirs, files, listado, nextId, creadoEn, borrados, externos>>
    ELSE IF \E i \in DOMAIN Stats : Stats[i] \notin DOMAIN jugador
      THEN \* jugador[stat] raises KeyError after the directory and file exist;
           \* the uuid4 drawn for the discarded dict is never stored
           /\ dirs' = ds2
           /\ files' = fs2
           /\ last' = Llamada("alta", ruta_csv, <<>>, <<>>, "KeyError", FALSE, <<>>)
           /\ UNCHANGED <<listado, nextId, creadoEn, borrados, externos>>
      ELSE /\ nextId <= MaxIds
           /\ dirs' = ds2
           /\ files' = escribir_csv(fs2, ruta_csv, AgregarFila(jugadores, fila))
           /\ nextId' = nextId + 1
           /\ creadoEn' = [i \in DOMAIN creadoEn \cup {id} |->
                             IF i = id THEN ruta_csv ELSE creadoEn[i]]
           /\ last' = Llamada("alta", ruta_csv, id, <<>>, "ok", TRUE, nuevo)
           /\ UNCHANGED <<listado, borrados, externos>>

actualizar_jugador(jugador_id, cambios) ==
  LET todos == leer_todos_los_jugadores(dirs, files, listado, BASE_DIR)
      j == Buscar(todos, jugador_id)
  IN
  IF j = 0
    THEN /\ last' = Llamada("actualizar", <<>>, jugador_id, cambios, "KeyError", FALSE, <<>>)
         /\ UNCHANGED <<dirs, files, listado, nextId, creadoEn, borrados, externos>>
    ELSE LET ruta == todos[j]["_origen"].s
             jugadores == leer_csv(files, ruta)
             f == Buscar(jugadores, jugador_id)
             fila == ActualizarFila(jugadores[f], cambios)
         IN /\ files' = escribir_csv(files, ruta, [jugadores EXCEPT ![f] = fila])
            /\ last' = Llamada("actualizar", ruta, jugador_id, cambios, "ok", TRUE, fila)
            /\ UNCHANGED <<dirs, listado, nextId, creadoEn, borrados, externos>>

eliminar_jugador(jugador_id) ==
  LET todos == leer_todos_los_jugadores(dirs, files, listado, BASE_DIR)
      j == Buscar(todos, jugador_id)
  IN
  IF j = 0
    THEN /\ last' = Llamada("eliminar", <<>>, jugador_id, <<>>, "ok", FALSE, <<>>)
         /\ UNCHANGED <<dirs, files, listado, nextId, creadoEn, borrados, externos>>
    ELSE LET ruta == todos[j]["_origen"].s
             jugadores == leer_csv(files, ruta)
             nuevos == FiltrarId(jugadores, jugador_id)
         IN /\ files' = escribir_csv(files, ruta, nuevos)
            /\ creadoEn' = [i \in DOMAIN creadoEn \ {jugador_id} |-> creadoEn[i]]
            /\ borrados' = borrados \cup {jugador_id}
            /\ last' = Llamada("eliminar", ruta, jugador_id, <<>>, "ok", TRUE, <<>>)
            /\ UNCHANGED <<dirs, listado, nextId, externos>>

Alta == \E d \in Destinos, jugador \in Jugadores : alta_jugador(d[1], d[2], jugador)

Actualizar == \E id \in Ids, cambios \in Cambios : actualizar_jugador(id, cambios)

Eliminar == \E id \in Ids : eliminar_jugador(id)

Next == Alta \/ Actualizar \/ Eliminar

Spec == Init /\ [][Next]_vars

\* The files in which a row with the identifier is stored
ArchivosCon(fs, id) ==
  {p \in DOMAIN fs : \E i \in DOMAIN fs[p] : fs[p][i]["id"] = id}

\* External tampering: a row of one file is copied into another file of the
\* hierarchy, so that two files hold the same identifier
Manipular ==
  \E p \in DOMAIN files, q \in DOMAIN files :
    \E i \in DOMAIN files[p] :
      /\ externos < MaxManipulaciones
      /\ externos' = externos + 1
      /\ p # q
      /\ ArchivosCon(files, files[p][i]["id"]) = {p}
      /\ files' = [files EXCEPT ![q] = Append(@, files[p][i])]
      /\ last' = Llamada("externo", q, files[p][i]["id"], <<>>, "ok", TRUE, <<>>)
      /\ UNCHANGED <<dirs, listado, nextId, creadoEn, borrados>>

\* The tampered runs: valid altas, one change mapping, tampering
AltaValida == \E d \in Destinos : alta_jugador(d[1], d[2], JAna)

ActualizarValido ==
  \E id \in Ids :
    actualizar_jugador(id, [nombre |-> StrV(<<"E", "v", "a">>), puntos |-> IntV(25)])

NextManipulado == AltaValida \/ ActualizarValido \/ Eliminar \/ Manipular

SpecManipulado == Init /\ [][NextManipulado]_vars

\* ------------------------------------------------------------------------
\* Properties
\* ------------------------------------------------------------------------
Editables == {"nombre", "posicion", "puntos", "rebotes", "asistencias"}

\* The identifiers of the rows of one file, in file order
IdsDe(fs, p) == [i \in DOMAIN fs[p] |-> fs[p][i]["id"]]

\* All identifiers stored in the hierarchy
IdsGuardados(fs) == UNION {{fs[p][i]["id"] : i \in DOMAIN fs[p]} : p \in DOMAIN fs}

\* C1: whenever alta_jugador fails, it fails with the validation error
\* (ValueError) and no directory or file is created or changed.
C1_AltaFallidaSinEfecto ==
  [][ (last'.op = "alta" /\ last'.err # "ok")
        => (last'.err = "ValueError" /\ dirs' = dirs /\ files' = files) ]_vars

\* C2: actualizar_jugador on a stored identifier, with a mapping of some of
\* the five editable keys, succeeds and returns a row with the supplied keys
\* at their new values and the other fields as they were; afterwards the
\* origin file has the same rows in the same order, exactly one of them with
\* the identifier, and that row carries the text of the new values.
C2_ActualizacionParcial ==
  [][ (/\ last'.op = "actualizar"
       /\ DOMAIN last'.cambios \subseteq Editables
       /\ last'.id \in IdsGuardados(files))
        => /\ last'.err = "ok"
           /\ \E p \in DOMAIN files : \E i \in DOMAIN files[p] :
                /\ files[p][i]["id"] = last'.id
                /\ last'.ret["id"] = StrV(last'.id)
                /\ \A k \in Editables :
                     /\ last'.ret[k] = IF k \in DOMAIN last'.cambios
                                         THEN last'.cambios[k]
                                         ELSE StrV(files[p][i][k])
                     /\ files'[p][i][k] = IF k \in DOMAIN last'.cambios
                                            THEN Str(last'.cambios[k])
                                            ELSE files[p][i][k]
                /\ IdsDe(files', p) = IdsDe(files, p)
                /\ Cardinality({r \in DOMAIN files'[p] : files'[p][r]["id"] = last'.id}) = 1 ]_vars

C2_Testigo ==
  /\ last.op = "actualizar"
  /\ last.err = "ok"
  /\ DOMAIN last.cambios = {"nombre", "puntos"}
  /\ \E p \in DOMAIN files :
       /\ Len(files[p]) >= 2
       /\ \E i \in DOMAIN files[p] :
            /\ files[p][i]["id"] = last.id
            /\ files[p][i]["puntos"] = <<"2", "5">>
            /\ files[p][i]["rebotes"] = <<"5", ".", "0">>

\* C3: eliminar_jugador on a stored identifier returns True and its origin
\* file loses exactly that row, the others staying in order; the same call
\* made again right after returns False and changes no file.
C3_EliminarUnaVez ==
  [][ /\ (last'.op = "eliminar" /\ last'.id \in IdsGuardados(files))
         => /\ last'.ok
            /\ \E p \in DOMAIN files : \E i \in DOMAIN files[p] :
                 /\ files[p][i]["id"] = last'.id
                 /\ files'[p] = SubSeq(files[p], 1, i - 1) \o SubSeq(files[p], i + 1, Len(files[p]))
                 /\ Len(files'[p]) = Len(files[p]) - 1
      /\ (/\ last.op = "eliminar" /\ last.ok
          /\ last'.op = "eliminar" /\ last'.id = last.id)
         => (~last'.ok /\ files' = files /\ dirs' = dirs) ]_vars

C3_Testigo ==
  /\ last.op = "eliminar"
  /\ last.ok
  /\ last.ruta \in DOMAIN files
  /\ Len(files[last.ruta]) = 1
  /\ files[last.ruta][1]["id"] # last.id

\* C4: leer_todos_los_jugadores over BASE_DIR returns exactly one tagged
\* record per stored row (none missing, none twice, none extra), tagged with
\* the path of the file holding the row; N altas and no baja give N records;
\* a missing BASE_DIR gives the empty list.
C4_LecturaCompleta ==
  LET todos == leer_todos_los_jugadores(dirs, files, listado, BASE_DIR)
      Fila(p, i) == [k \in Campos \cup {"_origen"} |->
                       IF k = "_origen" THEN StrV(p) ELSE StrV(files[p][i][k])]
  IN /\ \A p \in DOMAIN files : \A i \in DOMAIN files[p] :
          Cardinality({j \in DOMAIN todos : todos[j] = Fila(p, i)})
            = Cardinality({r \in DOMAIN files[p] : files[p][r] = files[p][i]})
     /\ \A j \in DOMAIN todos :
          \E p \in DOMAIN files : \E i \in DOMAIN files[p] : todos[j] = Fila(p, i)
     /\ (borrados = {} => Len(todos) = nextId - 1)
     /\ (BASE_DIR \notin dirs => todos = <<>>)

C4_Testigo ==
  /\ borrados = {}
  /\ nextId = 3
  /\ \E p \in DOMAIN files, q \in DOMAIN files :
       p # q /\ files[p] # <<>> /\ files[q] # <<>>

\* C5: with no row of the identifier anywhere, actualizar_jugador raises
\* KeyError and eliminar_jugador returns False without raising, and neither
\* creates or changes a directory or a file.
C5_NoEncontrado ==
  [][ (/\ last'.op \in {"actualizar", "eliminar"}
       /\ last'.id \notin IdsGuardados(files))
        => /\ files' = files
           /\ dirs' = dirs
           /\ last'.op = "actualizar" => last'.err = "KeyError"
           /\ last'.op = "eliminar" => (last'.err = "ok" /\ ~last'.ok) ]_vars

C5_Testigo ==
  /\ last.op = "actualizar"
  /\ last.err = "KeyError"
  /\ \E p \in DOMAIN files : files[p] # <<>>

\* C6: a successful actualizar_jugador or eliminar_jugador rewrites the one
\* file holding the row: every other file, and every other row of that
\* file, is the same before and after.
C6_SoloUnArchivo ==
  [][ (/\ last'.op \in {"actualizar", "eliminar"}
       /\ last'.err = "ok" /\ last'.ok)
        => \E p \in DOMAIN files :
             /\ last'.id \in {files[p][i]["id"] : i \in DOMAIN files[p]}
             /\ DOMAIN files' = DOMAIN files
             /\ dirs' = dirs
             /\ \A q \in DOMAIN files \ {p} : files'[q] = files[q]
             /\ SelectSeq(files'[p], LAMBDA f : f["id"] # last'.id)
                  = SelectSeq(files[p], LAMBDA f : f["id"] # last'.id) ]_vars

C6_Testigo ==
  /\ last.op = "eliminar"
  /\ last.ok
  /\ \E q \in DOMAIN files : q # last.ruta /\ files[q] # <<>>

\* C7: every stored row has a non-empty trimmed name, a lowercase position
\* of the fixed set, and the text of a non-negative number in each of
\* puntos, rebotes and asistencias.
C7_ModeloDeDatos ==
  \A p \in DOMAIN files : \A i \in DOMAIN files[p] :
    /\ files[p][i]["nombre"] # <<>>
    /\ Strip(files[p][i]["nombre"]) = files[p][i]["nombre"]
    /\ files[p][i]["posicion"] \in posiciones_validas
    /\ \A s \in DOMAIN Stats :
         /\ ParseFloat(files[p][i][Stats[s]]).ok
         /\ ParseFloat(files[p][i][Stats[s]]).n >= 0

\* C8: no two rows of the hierarchy share an identifier, and no call changes
\* the identifier of a row: the identifiers of each file stay as they are,
\* in order, but for the one alta appends (new to the hierarchy) and the one
\* eliminar removes.
C8_IdsUnicosYEstables ==
  [][ /\ \A p \in DOMAIN files', q \in DOMAIN files' :
           \A i \in DOMAIN files'[p], j \in DOMAIN files'[q] :
             files'[p][i]["id"] = files'[q][j]["id"] => (p = q /\ i = j)
      /\ \A p \in DOMAIN files :
           CASE last'.op = "eliminar" ->
                  IdsDe(files', p) = SelectSeq(IdsDe(files, p), LAMBDA x : x # last'.id)
             [] last'.op = "alta" ->
                  \/ IdsDe(files', p) = IdsDe(files, p)
                  \/ /\ IdsDe(files', p) = Append(IdsDe(files, p), last'.id)
                     /\ last'.id \notin IdsGuardados(files)
             [] OTHER -> IdsDe(files', p) = IdsDe(files, p) ]_vars

C8_Testigo ==
  /\ last.op = "actualizar"
  /\ last.err = "ok"
  /\ "id" \in DOMAIN last.cambios
  /\ Cardinality(IdsGuardados(files)) = 2

\* C9: when two files hold a row with the same identifier, actualizar_jugador
\* and eliminar_jugador act on the file of the first such record in the list
\* leer_todos_los_jugadores returns, and leave every other file as it was.
C9_PrimeroEnElRecorrido ==
  [][ (/\ last'.op \in {"actualizar", "eliminar"}
       /\ Cardinality(ArchivosCon(files, last'.id)) >= 2)
        => LET todos == leer_todos_los_jugadores(dirs, files, listado, BASE_DIR) IN
           \E j \in DOMAIN todos :
             /\ todos[j]["id"] = StrV(last'.id)
             /\ \A h \in 1..(j - 1) : todos[h]["id"] # StrV(last'.id)
             /\ \A q \in DOMAIN files \ {todos[j]["_origen"].s} : files'[q] = files[q]
             /\ last'.op = "eliminar" =>
                  last'.id \notin {files'[todos[j]["_origen"].s][i]["id"] :
                                     i \in DOMAIN files'[todos[j]["_origen"].s]}
             /\ last'.op = "actualizar" =>
                  \E i \in DOMAIN files'[todos[j]["_origen"].s] :
                    /\ files'[todos[j]["_origen"].s][i]["id"] = last'.id
                    /\ \A k \in DOMAIN last'.cambios \cap Editables :
                         files'[todos[j]["_origen"].s][i][k] = Str(last'.cambios[k]) ]_vars

C9_Testigo ==
  /\ last.op = "actualizar"
  /\ last.err = "ok"
  /\ \E p \in DOMAIN files, q \in DOMAIN files :
       \E i \in DOMAIN files[p], j \in DOMAIN files[q] :
         /\ p # q
         /\ files[p][i]["id"] = last.id
         /\ files[q][j]["id"] = last.id
         /\ files[p][i]["puntos"] # files[q][j]["puntos"]

\* C10: a stored identifier is in the file alta_jugador put it in and in no
\* other, until eliminar_jugador removes it; a successful alta_jugador
\* appends its row after the rows of that file and changes nothing else.
C10_NoSeMueve ==
  [][ /\ \A id \in DOMAIN creadoEn' : ArchivosCon(files', id) = {creadoEn'[id]}
      /\ IdsGuardados(files') = DOMAIN creadoEn'
      /\ (last'.op = "alta" /\ last'.err = "ok")
         => /\ files'[last'.ruta] =
                 Append(IF last'.ruta \in DOMAIN files THEN files[last'.ruta] ELSE <<>>,
                        [k \in Campos |-> Str(last'.ret[k])])
            /\ \A q \in DOMAIN files \ {last'.ruta} : files'[q] = files[q] ]_vars

C10_Testigo ==
  /\ last.op = "alta"
  /\ last.err = "ok"
  /\ Len(files[last.ruta]) = 2
  /\ files[last.ruta][2]["id"] = last.id

====
